---- MODULE Spec2Model ----
(***************************************************************************)
(* Model of the site-checker: SiteAnalyzer.analyze_site and the pure       *)
(* functions it calls (src/src/agents/site_analyzer.py), the WebScraper    *)
(* session (src/src/services/web_scraper.py), the pydantic models          *)
(* (src/src/models/site_analysis.py) and the CLI wrapper (src/main.py).    *)
(*                                                                         *)
(* Conventions.                                                            *)
(*  - A Python str is a sequence of lexemes.  A one-character lexeme is a  *)
(*    character of the text and is what find / startswith / `in` / lower   *)
(*    work on.  A longer lexeme is a fixed piece of text that contains no  *)
(*    brace, no upper-case keyword and none of the searched keywords (a    *)
(*    message produced by the program or a library, a host name, one       *)
(*    `"key": value` member of a JSON object).                             *)
(*  - An Optional value is a sequence of length 0 (None) or 1.             *)
(*  - risk_score and confidence are kept in tenths: 5.0 is 50, 0.1 is 1.   *)
(*  - A Python value inside a dict is a record [t, n, s, l]: its type tag, *)
(*    and the number, string or list of strings it holds.                  *)
(***************************************************************************)
EXTENDS Integers, Sequences, FiniteSets, TLC

VARIABLES
    pc,              \* position of the running call
    mode,            \* "cli" (main.py) or "lib" (direct / batch caller)
    verbose,         \* args.verbose
    args_url,        \* main(): args.url_opt or args.url, as typed (None off the CLI)
    url,             \* the url argument of SiteAnalyzer.analyze_site
    calls,           \* analyze_site calls started on this analyzer
    playwright,      \* WebScraper.playwright: "none", "running", "stopped"
    browser,         \* WebScraper.browser:    "none", "open", "closed"
    page,            \* the page of _scrape_with_playwright: "none", "open", "closed"
    fetch,           \* outcome of page.goto: "none", "ok", "failed"
    fetch_msg,       \* the message of the failed page.goto, if any
    content_data,    \* dict returned by _scrape_with_playwright, if any
    scrape_exc,      \* exception pending inside scrape_site, if any
    site_content,    \* the SiteContent returned by scrape_site, if any
    security_flags,  \* SecurityFlags computed by _analyze_content, if any
    runner,          \* outcome of Runner.run: "none", "ok", "failed"
    ai_response,     \* ai_analysis.final_output
    ai_result,       \* the dict _analyze_content builds the result from, if any
    analysis_result, \* the AnalysisResult, if any
    exc,             \* exception pending in analyze_site, if any
    errors,          \* the local list `errors` of analyze_site
    report,          \* the PhishingReport returned, if any
    outcome,         \* "none", "returned", "raised"
    exit_code,       \* process exit code of the CLI: "none", "0", "1"
    steps            \* the steps the running call has taken, in order

callv  == <<mode, verbose, args_url, url, calls>>
resv   == <<playwright, browser, page>>
fetchv == <<fetch, fetch_msg, content_data, scrape_exc>>
datav  == <<site_content, security_flags, runner, ai_response, ai_result, analysis_result>>
outv   == <<exc, errors, report, outcome, exit_code>>
vars   == <<pc, callv, resv, fetchv, datav, outv, steps>>

----------------------------------------------------------------------------
(* Optional values *)

None == <<>>
Some(x) == <<x>>
IsSome(o) == o # <<>>
The(o) == o[1]

----------------------------------------------------------------------------
(* str *)

UpperToLower ==
    ("A" :> "a") @@ ("B" :> "b") @@ ("C" :> "c") @@ ("D" :> "d") @@ ("E" :> "e") @@
    ("F" :> "f") @@ ("G" :> "g") @@ ("H" :> "h") @@ ("I" :> "i") @@ ("J" :> "j") @@
    ("K" :> "k") @@ ("L" :> "l") @@ ("M" :> "m") @@ ("N" :> "n") @@ ("O" :> "o") @@
    ("P" :> "p") @@ ("Q" :> "q") @@ ("R" :> "r") @@ ("S" :> "s") @@ ("T" :> "t") @@
    ("U" :> "u") @@ ("V" :> "v") @@ ("W" :> "w") @@ ("X" :> "x") @@ ("Y" :> "y") @@
    ("Z" :> "z")

\* str.lower()
lower(s) ==
    [i \in 1..Len(s) |-> IF s[i] \in DOMAIN UpperToLower THEN UpperToLower[s[i]] ELSE s[i]]

\* s.startswith(p)
startswith(s, p) ==
    /\ Len(s) >= Len(p)
    /\ \A i \in 1..Len(p) : s[i] = p[i]

\* k in s
Contains(s, k) ==
    \E i \in 0..(Len(s) - Len(k)) : \A j \in 1..Len(k) : s[i + j] = k[j]

\* s.find(c): the 0-based index of the first c, or -1
find(s, c) ==
    IF \E i \in 1..Len(s) : s[i] = c
    THEN (CHOOSE i \in 1..Len(s) : s[i] = c /\ \A j \in 1..(i - 1) : s[j] # c) - 1
    ELSE -1

\* s.rfind(c): the 0-based index of the last c, or -1
rfind(s, c) ==
    IF \E i \in 1..Len(s) : s[i] = c
    THEN (CHOOSE i \in 1..Len(s) : s[i] = c /\ \A j \in (i + 1)..Len(s) : s[j] # c) - 1
    ELSE -1

\* s[a:b] for 0 <= a <= b <= len(s)
Slice(s, a, b) == SubSeq(s, a + 1, b)

----------------------------------------------------------------------------
(* Python values held in a dict *)

\* set(s), the elements of a sequence
Range(s) == {s[i] : i \in DOMAIN s}

Num(n)   == [t |-> "num",  n |-> n, s |-> <<>>, l |-> <<>>]
StrV(s)  == [t |-> "str",  n |-> 0, s |-> s,    l |-> <<>>]
ListV(l) == [t |-> "list", n |-> 0, s |-> <<>>, l |-> l]
NullV    == [t |-> "null", n |-> 0, s |-> <<>>, l |-> <<>>]

\* d.get(k, default)
Get(d, k, default) == IF k \in DOMAIN d THEN d[k] ELSE default

----------------------------------------------------------------------------
(* src/src/models/site_analysis.py *)

HTTP_PREFIX  == <<"h", "t", "t", "p", ":", "/", "/">>
HTTPS_PREFIX == <<"h", "t", "t", "p", "s", ":", "/", "/">>

\* pydantic's check of a `url: HttpUrl` field: scheme http or https, then a host
ValidHttpUrl(u) ==
    \/ startswith(u, HTTP_PREFIX)  /\ Len(u) > Len(HTTP_PREFIX)
    \/ startswith(u, HTTPS_PREFIX) /\ Len(u) > Len(HTTPS_PREFIX)

\* The message of pydantic's ValidationError for the named model
ValidationError(model) == <<"1 validation error for ", model>>

\* SiteContent(url=..., html_content=..., text_content=..., ...): the fields the
\* analysis reads; links and forms default to [], the Optional fields to None.
\* The result is [ok |-> TRUE, value |-> the object] or [ok |-> FALSE, msg |-> ...].
SiteContent(u, html, text, links, forms, response_time, status_code) ==
    IF ValidHttpUrl(u)
    THEN [ok |-> TRUE,
          value |-> [url |-> u, html_content |-> html, text_content |-> text,
                     links |-> links, forms |-> forms,
                     response_time |-> response_time, status_code |-> status_code]]
    ELSE [ok |-> FALSE, msg |-> ValidationError("SiteContent")]

\* SecurityFlags(): every flag defaults to False, domain_age_days to None
SecurityFlagsDefault ==
    [has_https |-> FALSE, has_valid_certificate |-> FALSE,
     has_suspicious_keywords |-> FALSE, has_login_forms |-> FALSE,
     has_payment_forms |-> FALSE, domain_age_days |-> None, is_blacklisted |-> FALSE]

\* The strings that spell a number, with the number (in tenths)
NumberTexts == (<<"9.2">> :> 92)

\* A field declared float: pydantic takes a number as it is and converts a
\* string that spells a number; None and any other string are rejected.
ToFloat(v) ==
    IF v.t = "num" THEN Some(v.n)
    ELSE IF v.t = "str" /\ v.s \in DOMAIN NumberTexts THEN Some(NumberTexts[v.s])
    ELSE None

\* Fault: risk_score declared without its ge/le constraints
RiskScoreField_NoBounds(v) == IsSome(ToFloat(v))

\* risk_score: float = Field(ge=0, le=10)
RiskScoreField(v) ==
    IsSome(ToFloat(v)) /\ The(ToFloat(v)) >= 0 /\ The(ToFloat(v)) <= 100

\* Fault: confidence declared without its ge/le constraints
ConfidenceField_NoBounds(v) == IsSome(ToFloat(v))

\* confidence: float = Field(ge=0, le=1)
ConfidenceField(v) ==
    IsSome(ToFloat(v)) /\ The(ToFloat(v)) >= 0 /\ The(ToFloat(v)) <= 10

\* a field declared List[str]
ListField(v) == v.t = "list"

\* a field declared str
StrField(v) == v.t = "str"

\* a field declared Optional[str]
OptionalStrField(v) == v.t \in {"str", "null"}

\* AnalysisResult(url=..., risk_score=..., ...): pydantic validates every field
\* and raises ValidationError when one is rejected.
AnalysisResult(u, risk_score, confidence, flags, suspicious_elements, legitimate_indicators, recommendation, explanation, brand_impersonation) ==
    IF /\ ValidHttpUrl(u)
       /\ RiskScoreField(risk_score)
       /\ ConfidenceField(confidence)
       /\ ListField(suspicious_elements)
       /\ ListField(legitimate_indicators)
       /\ StrField(recommendation)
       /\ StrField(explanation)
       /\ OptionalStrField(brand_impersonation)
    THEN [ok |-> TRUE,
          value |-> [url |-> u,
                     risk_score |-> The(ToFloat(risk_score)),
                     confidence |-> The(ToFloat(confidence)),
                     security_flags |-> flags,
                     suspicious_elements |-> suspicious_elements.l,
                     legitimate_indicators |-> legitimate_indicators.l,
                     recommendation |-> recommendation.s,
                     explanation |-> explanation.s,
                     brand_impersonation |->
                         IF brand_impersonation.t = "str"
                         THEN Some(brand_impersonation.s) ELSE None]]
    ELSE [ok |-> FALSE, msg |-> ValidationError("AnalysisResult")]

\* PhishingReport(site_content=..., analysis_result=..., errors=...)
PhishingReport(content, result, errs) ==
    [site_content |-> content, analysis_result |-> result, errors |-> errs]

----------------------------------------------------------------------------
(* JSON text of an assessment.  A member lexeme is the text of one        *)
(* `"key": value` member; Members gives the key and the value it decodes  *)
(* to.                                                                     *)

M_RISK_92     == "\"risk_score\": 9.2"
M_RISK_120    == "\"risk_score\": 12"
M_RISK_NEG    == "\"risk_score\": -1"
M_RISK_NULL   == "\"risk_score\": null"
M_RISK_STR    == "\"risk_score\": \"very bad\""
M_RISK_TEXT   == "\"risk_score\": \"9.2\""
M_CONF_8      == "\"confidence\": 0.8"
M_CONF_15     == "\"confidence\": 1.5"
M_CONF_NULL   == "\"confidence\": null"
M_SUSP        == "\"suspicious_elements\": [\"typo domain\"]"
M_LEGIT       == "\"legitimate_indicators\": [\"old domain\"]"
M_RECO        == "\"recommendation\": \"Block\""
M_RECO_NULL   == "\"recommendation\": null"
M_EXPL        == "\"explanation\": \"Imitates a bank\""
M_EXPL_NUM    == "\"explanation\": 7"
M_BRAND       == "\"brand_impersonation\": \"PayPal\""
M_BRAND_NULL  == "\"brand_impersonation\": null"
M_NOTE        == "\"note\": \"n/a\""

Members ==
    (M_RISK_92    :> [k |-> "risk_score", v |-> Num(92)]) @@
    (M_RISK_120   :> [k |-> "risk_score", v |-> Num(120)]) @@
    (M_RISK_NEG   :> [k |-> "risk_score", v |-> Num(-10)]) @@
    (M_RISK_NULL  :> [k |-> "risk_score", v |-> NullV]) @@
    (M_RISK_STR   :> [k |-> "risk_score", v |-> StrV(<<"very bad">>)]) @@
    (M_RISK_TEXT  :> [k |-> "risk_score", v |-> StrV(<<"9.2">>)]) @@
    (M_CONF_8     :> [k |-> "confidence", v |-> Num(8)]) @@
    (M_CONF_15    :> [k |-> "confidence", v |-> Num(15)]) @@
    (M_CONF_NULL  :> [k |-> "confidence", v |-> NullV]) @@
    (M_SUSP       :> [k |-> "suspicious_elements", v |-> ListV(<< <<"typo domain">> >>)]) @@
    (M_LEGIT      :> [k |-> "legitimate_indicators", v |-> ListV(<< <<"old domain">> >>)]) @@
    (M_RECO       :> [k |-> "recommendation", v |-> StrV(<<"Block">>)]) @@
    (M_RECO_NULL  :> [k |-> "recommendation", v |-> NullV]) @@
    (M_EXPL       :> [k |-> "explanation", v |-> StrV(<<"Imitates a bank">>)]) @@
    (M_EXPL_NUM   :> [k |-> "explanation", v |-> Num(70)]) @@
    (M_BRAND      :> [k |-> "brand_impersonation", v |-> StrV(<<"PayPal">>)]) @@
    (M_BRAND_NULL :> [k |-> "brand_impersonation", v |-> NullV]) @@
    (M_NOTE       :> [k |-> "note", v |-> StrV(<<"n/a">>)])

\* json.loads(s): s decodes iff, whitespace apart, it is "{", members separated
\* by ",", "}".  A key given twice keeps its last value.
\* [ok |-> TRUE, obj |-> the dict] or [ok |-> FALSE] (JSONDecodeError).
json_loads(s) ==
    LET IsToken(x) == x # " "
        t == SelectSeq(s, IsToken)
        n == Len(t)
        inner == IF n >= 2 THEN SubSeq(t, 2, n - 1) ELSE <<>>
        m == Len(inner)
        wellFormed ==
            /\ n >= 2 /\ t[1] = "{" /\ t[n] = "}"
            /\ \/ m = 0
               \/ /\ m % 2 = 1
                  /\ \A i \in 1..m :
                        IF i % 2 = 1 THEN inner[i] \in DOMAIN Members ELSE inner[i] = ","
        keys == {Members[inner[i]].k : i \in {j \in 1..m : j % 2 = 1}}
        last(k) == CHOOSE i \in 1..m :
                       /\ i % 2 = 1 /\ Members[inner[i]].k = k
                       /\ \A j \in (i + 1)..m :
                              j % 2 = 1 => Members[inner[j]].k # k
    IN  IF wellFormed
        THEN [ok |-> TRUE, obj |-> [k \in keys |-> Members[inner[last(k)]].v]]
        ELSE [ok |-> FALSE]

\* The searched keywords a longer lexeme's text contains
LexemeKeywords ==
    (M_SUSP :> {<<"s", "u", "s", "p", "i", "c", "i", "o", "u", "s">>}) @@
    (M_LEGIT :> {<<"l", "e", "g", "i", "t", "i", "m", "a", "t", "e">>})

\* k in s, for a text s that may hold longer lexemes
Has(s, k) ==
    \/ Contains(s, k)
    \/ \E i \in 1..Len(s) : s[i] \in DOMAIN LexemeKeywords /\ k \in LexemeKeywords[s[i]]

\* any(k in s for k in ks)
HasAny(s, ks) == \E n \in 1..Len(ks) : Has(s, ks[n])

----------------------------------------------------------------------------
(* src/src/agents/site_analyzer.py: the pure functions *)

suspicious_keywords ==
    << <<"u", "r", "g", "e", "n", "t">>, <<"v", "e", "r", "i", "f", "y">>, <<"s", "u", "s", "p", "e", "n", "d", "e", "d">>, <<"l", "i", "m", "i", "t", "e", "d", " ", "t", "i", "m", "e">>, <<"a", "c", "t", " ", "n", "o", "w">>,
       <<"c", "o", "n", "f", "i", "r", "m">>, <<"u", "p", "d", "a", "t", "e">>, <<"s", "e", "c", "u", "r", "i", "t", "y", " ", "a", "l", "e", "r", "t">>, <<"l", "o", "c", "k", "e", "d">>, <<"e", "x", "p", "i", "r", "e", "s">> >>

payment_field_types == {"email", "text", "password", "tel"}

\* any(field.get("type") == "password" for field in form.get("fields", []))
HasPasswordField(form) ==
    \E j \in 1..Len(form.fields) : form.fields[j].type = "password"

\* Fault: every field of the form is counted, whatever its type
PaymentFieldCount_AllFields(form) == Len(form.fields)

\* len([f for f in form.get("fields", []) if f.get("type") in payment_field_types])
PaymentFieldCount(form) ==
    Cardinality({j \in 1..Len(form.fields) : form.fields[j].type \in payment_field_types})

_analyze_security_flags(content) ==
    LET has_https == startswith(content.url, HTTPS_PREFIX)
        text_lower == lower(content.text_content)
    IN  [has_https |-> has_https,
         has_valid_certificate |-> has_https,
         has_suspicious_keywords |-> HasAny(text_lower, suspicious_keywords),
         has_login_forms |->
             \E i \in 1..Len(content.forms) : HasPasswordField(content.forms[i]),
         has_payment_forms |->
             \E i \in 1..Len(content.forms) : PaymentFieldCount(content.forms[i]) > 2,
         domain_age_days |-> None,
         is_blacklisted |-> FALSE]

high_risk_indicators ==
    << <<"h", "i", "g", "h", " ", "r", "i", "s", "k">>, <<"p", "h", "i", "s", "h", "i", "n", "g">>, <<"s", "u", "s", "p", "i", "c", "i", "o", "u", "s">>, <<"f", "a", "k", "e">>, <<"s", "c", "a", "m">> >>

low_risk_indicators ==
    << <<"l", "e", "g", "i", "t", "i", "m", "a", "t", "e">>, <<"s", "a", "f", "e">>, <<"l", "o", "w", " ", "r", "i", "s", "k">>, <<"t", "r", "u", "s", "t", "e", "d">> >>

\* Fault: the low-risk words are looked for before the high-risk words
_extract_from_text_response_LowFirst(response) ==
    LET response_lower == lower(response)
        risk_score ==
            IF HasAny(response_lower, low_risk_indicators) THEN 20
            ELSE IF HasAny(response_lower, high_risk_indicators) THEN 80
            ELSE 50
    IN  [risk_score |-> Num(risk_score),
         confidence |-> Num(6),
         suspicious_elements |-> ListV(<< <<"AI analysis inconclusive">> >>),
         legitimate_indicators |-> ListV(<<>>),
         recommendation |-> StrV(<<"Manual review recommended">>),
         explanation |-> StrV(<<"AI response could not be parsed properly">>),
         brand_impersonation |-> NullV]

_extract_from_text_response(response) ==
    LET response_lower == lower(response)
        risk_score ==
            IF HasAny(response_lower, high_risk_indicators) THEN 80
            ELSE IF HasAny(response_lower, low_risk_indicators) THEN 20
            ELSE 50
    IN  [risk_score |-> Num(risk_score),
         confidence |-> Num(6),
         suspicious_elements |-> ListV(<< <<"AI analysis inconclusive">> >>),
         legitimate_indicators |-> ListV(<<>>),
         recommendation |-> StrV(<<"Manual review recommended">>),
         explanation |-> StrV(<<"AI response could not be parsed properly">>),
         brand_impersonation |-> NullV]

\* The result of a call: a value returned or an exception raised
Returned(v) == [raised |-> FALSE, value |-> v]
Raised(msg) == [raised |-> TRUE, msg |-> msg]

\* Fault: no handler around json.loads, whose JSONDecodeError leaves the parser
_parse_ai_response_NoHandler(response) ==
    LET start_idx == find(response, "{")
        end_idx == rfind(response, "}") + 1
        found == start_idx # -1 /\ end_idx > start_idx
        decoded == json_loads(Slice(response, start_idx, end_idx))
    IN  IF found
        THEN IF decoded.ok THEN Returned(decoded.obj)
             ELSE Raised(<<"Expecting property name enclosed in double quotes">>)
        ELSE Returned(_extract_from_text_response(response))

_parse_ai_response(response) ==
    LET start_idx == find(response, "{")
        end_idx == rfind(response, "}") + 1
        found == start_idx # -1 /\ end_idx > start_idx
        decoded == json_loads(Slice(response, start_idx, end_idx))
    IN  IF found /\ decoded.ok
        THEN Returned(decoded.obj)
        ELSE \* nothing to decode, or json.loads raised and the handler passed
             Returned(_extract_from_text_response(response))

suspicious_words == << <<"u", "r", "g", "e", "n", "t">>, <<"v", "e", "r", "i", "f", "y">>, <<"s", "u", "s", "p", "e", "n", "d", "e", "d">>, <<"e", "x", "p", "i", "r", "e", "s">> >>

\* Fault: the clamp at 10.0 left out
Min_NoClamp(a, b) == a

\* Fault: max written for min
Min_Max(a, b) == IF a >= b THEN a ELSE b

Min(a, b) == IF a <= b THEN a ELSE b

\* Fault: the thresholds 3 and 7 compared with <= instead of <
RiskLevel_Inclusive(risk_score) ==
    IF risk_score <= 30 THEN <<"Low risk">>
    ELSE IF risk_score <= 70 THEN <<"Medium risk">>
    ELSE <<"High risk">>

\* "Low risk" if risk_score < 3 else "Medium risk" if risk_score < 7 else "High risk"
RiskLevel(risk_score) ==
    IF risk_score < 30 THEN <<"Low risk">>
    ELSE IF risk_score < 70 THEN <<"Medium risk">>
    ELSE <<"High risk">>

_fallback_analysis(content) ==
    LET no_https == ~startswith(content.url, HTTPS_PREFIX)
        text_lower == lower(content.text_content)
        IsFound(word) == Has(text_lower, word)
        found_suspicious == SelectSeq(suspicious_words, IsFound)
        Keyword(word) == <<"Suspicious keyword: ">> \o word
        has_password_forms ==
            /\ content.forms # <<>>
            /\ \E i \in 1..Len(content.forms) : HasPasswordField(content.forms[i])
        risk_factors ==
            (IF no_https THEN 2 ELSE 0) + Len(found_suspicious)
            + (IF has_password_forms THEN 1 ELSE 0)
        suspicious_elements ==
            (IF no_https THEN << <<"No HTTPS encryption">> >> ELSE <<>>)
            \o [i \in 1..Len(found_suspicious) |-> Keyword(found_suspicious[i])]
            \o (IF has_password_forms THEN << <<"Password input forms detected">> >> ELSE <<>>)
        legitimate_indicators ==
            IF no_https THEN <<>> ELSE << <<"HTTPS encryption present">> >>
        risk_score == Min(risk_factors * 15, 100)
    IN  [risk_score |-> Num(risk_score),
         confidence |-> Num(7),
         suspicious_elements |-> ListV(suspicious_elements),
         legitimate_indicators |-> ListV(legitimate_indicators),
         recommendation |-> StrV(RiskLevel(risk_score)),
         explanation |->
             StrV(<<"Rule-based analysis found ", ToString(risk_factors), " risk factors">>),
         brand_impersonation |-> NullV]

\* Fault: the defaults of risk_score and confidence exchanged
BuildAnalysisResult_SwappedDefaults(content, flags, ai) ==
    AnalysisResult(content.url,
                   Get(ai, "risk_score", Num(5)),
                   Get(ai, "confidence", Num(50)),
                   flags,
                   Get(ai, "suspicious_elements", ListV(<<>>)),
                   Get(ai, "legitimate_indicators", ListV(<<>>)),
                   Get(ai, "recommendation", StrV(<<"Requires manual review">>)),
                   Get(ai, "explanation", StrV(<<"Automated analysis completed">>)),
                   Get(ai, "brand_impersonation", NullV))

\* _analyze_content: return AnalysisResult(...), each field from ai_result.get
BuildAnalysisResult(content, flags, ai) ==
    AnalysisResult(content.url,
                   Get(ai, "risk_score", Num(50)),
                   Get(ai, "confidence", Num(5)),
                   flags,
                   Get(ai, "suspicious_elements", ListV(<<>>)),
                   Get(ai, "legitimate_indicators", ListV(<<>>)),
                   Get(ai, "recommendation", StrV(<<"Requires manual review">>)),
                   Get(ai, "explanation", StrV(<<"Automated analysis completed">>)),
                   Get(ai, "brand_impersonation", NullV))

----------------------------------------------------------------------------
(* Inputs of the analysis: URLs, fetched pages, assessment responses and   *)
(* the messages of the failures the collaborators raise.                   *)

MaxCalls == 2

URL_HTTPS == HTTPS_PREFIX \o <<"example.com">>
URL_HTTP  == HTTP_PREFIX \o <<"example.com">>
URL_BARE  == <<"example.com">>
URL_EMPTY == <<>>
URL_FTP   == <<"f", "t", "p", ":", "/", "/">> \o <<"example.com">>

Urls == {URL_HTTPS, URL_HTTP, URL_BARE, URL_EMPTY, URL_FTP}

Field(type) == [type |-> type]
Form(types) == [fields |-> [i \in 1..Len(types) |-> Field(types[i])]]

FORM_LOGIN  == Form(<<"password", "text", "text", "email">>)
FORM_SEARCH == Form(<<"text", "submit">>)
FORM_CONTACT == Form(<<"email", "tel">>)
FORM_CONSENT == Form(<<"email", "checkbox", "submit">>)

PAGE_EMPTY ==
    [html_content |-> <<"<html></html>">>, text_content |-> <<>>,
     links |-> <<>>, forms |-> <<>>]
PAGE_LOGIN ==
    [html_content |-> <<"<html>...</html>">>,
     text_content |-> <<"U", "R", "G", "E", "N", "T", ":", " ", "v", "e", "r", "i", "f", "y", " ", "y", "o", "u", "r", " ", "a", "c", "c", "o", "u", "n", "t">>,
     links |-> <<>>, forms |-> <<FORM_LOGIN>>]
PAGE_PLAIN ==
    [html_content |-> <<"<html>...</html>">>,
     text_content |-> <<"W", "e", "l", "c", "o", "m", "e">>,
     links |-> << <<"https://example.com/about">> >>, forms |-> <<FORM_SEARCH>>]

Pages == {PAGE_EMPTY, PAGE_LOGIN, PAGE_PLAIN}

OBJ_PARTIAL == <<"{", M_RISK_92, ",", " ", M_CONF_8, "}">>
OBJ_FULL ==
    <<"{", M_RISK_92, ",", M_CONF_8, ",", M_SUSP, ",", M_LEGIT, ",", M_RECO, ",",
      M_EXPL, ",", M_BRAND, "}">>

RESP_FULL      == OBJ_FULL
RESP_PARTIAL   == <<"b", "l", "a", "h", " ">> \o OBJ_PARTIAL \o <<" ", "b", "l", "a", "h">>
RESP_RISK_HIGH == <<"{", M_RISK_120, "}">>
RESP_CONF_HIGH == <<"{", M_RISK_92, ",", M_CONF_15, "}">>
RESP_RECO_NULL == <<"{", M_RECO_NULL, "}">>
RESP_RISK_NEG  == <<"{", M_RISK_NEG, ",", M_CONF_8, "}">>
RESP_RISK_NULL == <<"{", M_RISK_NULL, "}">>
RESP_RISK_STR  == <<"{", M_RISK_STR, "}">>
RESP_RISK_TEXT == <<"{", M_RISK_TEXT, ",", M_CONF_8, "}">>
RESP_CONF_NULL == <<"{", M_RISK_92, ",", M_CONF_NULL, "}">>
RESP_EXPL_NUM  == <<"{", M_RECO, ",", M_EXPL_NUM, "}">>
RESP_BROKEN    == <<"{", M_RISK_92>>
RESP_PHISHING  == <<"L", "o", "o", "k", "s", " ", "l", "i", "k", "e", " ", "P", "h", "i", "s", "h", "i", "n", "g">>
RESP_SAFE      == <<"I", " ", "b", "e", "l", "i", "e", "v", "e", " ", "t", "h", "i", "s", " ", "s", "i", "t", "e", " ", "i", "s", " ", "l", "e", "g", "i", "t", "i", "m", "a", "t", "e", " ", "a", "n", "d", " ", "s", "a", "f", "e", ".">>
RESP_EMPTY     == <<>>

Responses ==
    {RESP_FULL, RESP_PARTIAL, RESP_RISK_HIGH, RESP_CONF_HIGH, RESP_RECO_NULL,
     RESP_RISK_NEG, RESP_RISK_NULL, RESP_RISK_STR, RESP_RISK_TEXT, RESP_CONF_NULL,
     RESP_EXPL_NUM, RESP_BROKEN, RESP_PHISHING, RESP_SAFE, RESP_EMPTY}

MSG_DRIVER        == <<"Driver process failed to start">>
MSG_LAUNCH        == <<"Executable doesn't exist">>
MSG_NEW_PAGE      == <<"Browser has been closed">>
MSG_TIMEOUT       == <<"Timeout 30000ms exceeded">>
MSG_UNREACHABLE   == <<"net::ERR_NAME_NOT_RESOLVED">>
MSG_PAGE_CLOSE    == <<"Page crashed">>
MSG_BROWSER_CLOSE == <<"Connection closed">>
MSG_STOP          == <<"Driver already stopped">>

FetchMessages == {MSG_TIMEOUT, MSG_UNREACHABLE}

----------------------------------------------------------------------------
(* The analysis call *)

\* Nothing has run yet: no call, no session, no result
Blank ==
    /\ mode = "none"
    /\ verbose = FALSE
    /\ args_url = None
    /\ calls = 0
    /\ playwright = "none"
    /\ browser = "none"
    /\ page = "none"
    /\ fetch = "none"
    /\ fetch_msg = None
    /\ content_data = None
    /\ scrape_exc = None
    /\ security_flags = None
    /\ runner = "none"
    /\ ai_result = None
    /\ analysis_result = None
    /\ exc = None
    /\ errors = <<>>
    /\ report = None
    /\ outcome = "none"
    /\ exit_code = "none"
    /\ steps = <<>>

Init ==
    /\ pc = "idle"
    /\ url = <<>>
    /\ site_content = None
    /\ ai_response = None
    /\ Blank

\* Fault: the errors list is kept on the analyzer and not emptied at entry
Enter_KeepsErrors(m, v, u) ==
    /\ pc' = "aenter_start"
    /\ mode' = m
    /\ verbose' = v
    /\ url' = u
    /\ calls' = calls + 1
    /\ playwright' = "none"
    /\ browser' = "none"
    /\ page' = "none"
    /\ fetch' = "none"
    /\ fetch_msg' = None
    /\ content_data' = None
    /\ scrape_exc' = None
    /\ site_content' = None
    /\ security_flags' = None
    /\ runner' = "none"
    /\ ai_response' = None
    /\ ai_result' = None
    /\ analysis_result' = None
    /\ exc' = None
    /\ UNCHANGED errors
    /\ report' = None
    /\ outcome' = "none"
    /\ exit_code' = "none"
    /\ steps' = <<>>

\* Entry of SiteAnalyzer.analyze_site(u): every local is fresh, and the
\* WebScraper of this call has started nothing yet.
Enter(m, v, u) ==
    /\ pc' = "aenter_start"
    /\ mode' = m
    /\ verbose' = v
    /\ url' = u
    /\ calls' = calls + 1
    /\ playwright' = "none"
    /\ browser' = "none"
    /\ page' = "none"
    /\ fetch' = "none"
    /\ fetch_msg' = None
    /\ content_data' = None
    /\ scrape_exc' = None
    /\ site_content' = None
    /\ security_flags' = None
    /\ runner' = "none"
    /\ ai_response' = None
    /\ ai_result' = None
    /\ analysis_result' = None
    /\ exc' = None
    /\ errors' = <<>>
    /\ report' = None
    /\ outcome' = "none"
    /\ exit_code' = "none"
    /\ steps' = <<>>

\* main(): url = args.url_opt or args.url, then the scheme is prefixed
NormalizeUrl(u) ==
    IF ~(startswith(u, HTTP_PREFIX) \/ startswith(u, HTTPS_PREFIX))
    THEN HTTPS_PREFIX \o u
    ELSE u

\* main() and main.analyze_site up to the call of analyzer.analyze_site
Main ==
    /\ pc = "idle"
    /\ \E arg_url \in Urls, arg_url_opt \in {None} \cup {Some(u) : u \in Urls},
          arg_verbose \in BOOLEAN :
          LET chosen == IF IsSome(arg_url_opt) /\ The(arg_url_opt) # <<>>
                        THEN The(arg_url_opt) ELSE arg_url
          IN  /\ args_url' = Some(chosen)
              /\ Enter("cli", arg_verbose, NormalizeUrl(chosen))

\* A caller other than the CLI calls analyzer.analyze_site(u); a batch caller
\* calls it again on the same analyzer once the previous call has ended.
LibCall ==
    /\ \/ pc = "idle"
       \/ pc = "finished" /\ mode = "lib"
    /\ calls < MaxCalls
    /\ args_url' = None
    /\ \E u \in Urls : Enter("lib", FALSE, u)

\* __aenter__: async_playwright().start()
AenterStart ==
    /\ pc = "aenter_start"
    /\ \/ /\ playwright' = "running"
          /\ pc' = "aenter_launch"
          /\ UNCHANGED exc
       \/ /\ exc' = Some(MSG_DRIVER)
          /\ pc' = "except"
          /\ UNCHANGED playwright
    /\ UNCHANGED <<callv, browser, page, fetchv, datav, errors, report, outcome,
                   exit_code, steps>>

\* __aenter__: self.playwright.chromium.launch(); when it raises, the body of
\* the `async with` and __aexit__ never run
AenterLaunch ==
    /\ pc = "aenter_launch"
    /\ \/ /\ browser' = "open"
          /\ pc' = "new_page"
          /\ UNCHANGED exc
       \/ /\ exc' = Some(MSG_LAUNCH)
          /\ pc' = "except"
          /\ UNCHANGED browser
    /\ UNCHANGED <<callv, playwright, page, fetchv, datav, errors, report, outcome,
                   exit_code, steps>>

\* _scrape_with_playwright: self.browser.new_page()
NewPage ==
    /\ pc = "new_page"
    /\ \/ /\ page' = "open"
          /\ pc' = "goto"
          /\ UNCHANGED scrape_exc
       \/ /\ scrape_exc' = Some(MSG_NEW_PAGE)
          /\ pc' = "scrape_except"
          /\ UNCHANGED page
    /\ steps' = Append(steps, "fetch")
    /\ UNCHANGED <<callv, playwright, browser, fetch, fetch_msg, content_data,
                   datav, outv>>

\* _scrape_with_playwright: page.goto and the reads of the loaded page; a URL
\* the browser cannot navigate to fails here
Goto ==
    /\ pc = "goto"
    /\ \/ /\ ValidHttpUrl(url)
          /\ \E p \in Pages : content_data' = Some(p)
          /\ fetch' = "ok"
          /\ UNCHANGED scrape_exc
       \/ /\ \E m \in FetchMessages : scrape_exc' = Some(m)
          /\ fetch' = "failed"
          /\ UNCHANGED content_data
    /\ pc' = "page_close"
    /\ UNCHANGED <<callv, resv, fetch_msg, datav, outv, steps>>

\* _scrape_with_playwright: finally: await page.close()
PageClose ==
    /\ pc = "page_close"
    /\ \/ /\ page' = "closed"
          /\ pc' = IF IsSome(scrape_exc) THEN "scrape_except" ELSE "build_content"
          /\ UNCHANGED <<scrape_exc, content_data>>
       \/ /\ scrape_exc' = Some(MSG_PAGE_CLOSE)
          /\ content_data' = None
          /\ pc' = "scrape_except"
          /\ UNCHANGED page
    /\ UNCHANGED <<callv, playwright, browser, fetch, fetch_msg, datav, outv, steps>>

\* scrape_site: _get_additional_info (which never raises) and the SiteContent
\* of the fetched page
BuildContent ==
    /\ pc = "build_content"
    /\ \E status \in {"200", "0"} :
          LET d == The(content_data)
              c == SiteContent(url, d.html_content, d.text_content, d.links, d.forms,
                               Some("float"), Some(status))
          IN  IF c.ok
              THEN /\ site_content' = Some(c.value)
                   /\ pc' = "aexit_close"
                   /\ UNCHANGED scrape_exc
              ELSE /\ scrape_exc' = Some(c.msg)
                   /\ pc' = "scrape_except"
                   /\ UNCHANGED site_content
    /\ UNCHANGED <<callv, resv, fetch, fetch_msg, content_data, security_flags, runner,
                   ai_response, ai_result, analysis_result, outv, steps>>

\* Fault: scrape_site lets the exception go on to its caller
ScrapeExcept_Reraise ==
    /\ pc = "scrape_except"
    /\ fetch_msg' = scrape_exc
    /\ exc' = scrape_exc
    /\ scrape_exc' = None
    /\ pc' = "aexit_close"
    /\ UNCHANGED <<callv, resv, fetch, content_data, datav, errors, report, outcome,
                   exit_code, steps>>

\* scrape_site: except Exception as e: the placeholder SiteContent
ScrapeExcept ==
    /\ pc = "scrape_except"
    /\ LET msg == The(scrape_exc)
           c == SiteContent(url, <<>>, <<"Error scraping site: ">> \o msg, <<>>, <<>>,
                            Some("float"), Some("0"))
       IN  /\ fetch_msg' = Some(msg)
           /\ IF c.ok
              THEN /\ site_content' = Some(c.value)
                   /\ UNCHANGED exc
              ELSE /\ exc' = Some(c.msg)
                   /\ UNCHANGED site_content
    /\ scrape_exc' = None
    /\ pc' = "aexit_close"
    /\ UNCHANGED <<callv, resv, fetch, content_data, security_flags, runner,
                   ai_response, ai_result, analysis_result, errors, report, outcome,
                   exit_code, steps>>

\* __aexit__: if self.browser: await self.browser.close()
\* Fault: self.browser is never found set, so the browser is left open
AexitClose_BrowserLeftOpen ==
    /\ pc = "aexit_close"
    /\ pc' = "aexit_stop"
    /\ UNCHANGED <<callv, resv, fetchv, datav, outv, steps>>

AexitClose ==
    /\ pc = "aexit_close"
    /\ \/ /\ browser' = "closed"
          /\ page' = IF page = "open" THEN "closed" ELSE page
          /\ pc' = "aexit_stop"
          /\ UNCHANGED exc
       \/ /\ exc' = Some(MSG_BROWSER_CLOSE)
          /\ pc' = "except"
          /\ UNCHANGED <<browser, page>>
    /\ UNCHANGED <<callv, playwright, fetchv, datav, errors, report, outcome,
                   exit_code, steps>>

\* __aexit__: await self.playwright.stop(); an exception of the body goes on
\* to analyze_site's handler
AexitStop ==
    /\ pc = "aexit_stop"
    /\ \/ /\ playwright' = "stopped"
          /\ pc' = IF IsSome(exc) THEN "except" ELSE "analyze_content"
          /\ steps' = Append(steps, "close")
          /\ UNCHANGED exc
       \/ /\ exc' = Some(MSG_STOP)
          /\ pc' = "except"
          /\ UNCHANGED <<playwright, steps>>
    /\ UNCHANGED <<callv, browser, page, fetchv, datav, errors, report, outcome,
                   exit_code>>

\* _analyze_content: the content summary and the security flags
AnalyzeContent ==
    /\ pc = "analyze_content"
    /\ security_flags' = Some(_analyze_security_flags(The(site_content)))
    /\ pc' = "runner"
    /\ steps' = Append(steps, "classify")
    /\ UNCHANGED <<callv, resv, fetchv, site_content, runner, ai_response, ai_result,
                   analysis_result, outv>>

\* Fault: no handler around Runner.run, whose exception leaves _analyze_content
OnAssessmentFailure_Propagates(content) == Raised(<<"Runner.run failed">>)

\* _analyze_content: except Exception: ai_result = self._fallback_analysis(...)
OnAssessmentFailure(content) == Returned(_fallback_analysis(content))

\* _analyze_content: Runner.run and _parse_ai_response inside the try, the
\* fallback in its handler
RunnerRun ==
    /\ pc = "runner"
    /\ \/ \E r \in Responses :
             LET parsed == _parse_ai_response(r)
                 res == IF parsed.raised
                        THEN OnAssessmentFailure(The(site_content)) ELSE parsed
             IN  /\ ai_response' = Some(r)
                 /\ runner' = "ok"
                 /\ steps' = steps \o <<"assess", "parse">>
                 /\ IF res.raised
                    THEN exc' = Some(res.msg) /\ pc' = "except" /\ UNCHANGED ai_result
                    ELSE ai_result' = Some(res.value) /\ pc' = "build_result"
                         /\ UNCHANGED exc
       \/ LET res == OnAssessmentFailure(The(site_content))
          IN  /\ runner' = "failed"
              /\ steps' = steps \o <<"assess", "score">>
              /\ UNCHANGED ai_response
              /\ IF res.raised
                 THEN exc' = Some(res.msg) /\ pc' = "except" /\ UNCHANGED ai_result
                 ELSE ai_result' = Some(res.value) /\ pc' = "build_result"
                      /\ UNCHANGED exc
    /\ UNCHANGED <<callv, resv, fetchv, site_content, security_flags, analysis_result,
                   errors, report, outcome, exit_code>>

\* _analyze_content: return AnalysisResult(...); analyze_site: return
\* PhishingReport(...)
BuildResult ==
    /\ pc = "build_result"
    /\ LET r == BuildAnalysisResult(The(site_content), The(security_flags), The(ai_result))
       IN  IF r.ok
           THEN /\ analysis_result' = Some(r.value)
                /\ report' = Some(PhishingReport(The(site_content), r.value, errors))
                /\ outcome' = "returned"
                /\ pc' = "finished"
                /\ steps' = Append(steps, "assemble")
                /\ UNCHANGED exc
           ELSE /\ exc' = Some(r.msg)
                /\ pc' = "except"
                /\ UNCHANGED <<analysis_result, report, outcome, steps>>
    /\ UNCHANGED <<callv, resv, fetchv, site_content, security_flags, runner,
                   ai_response, ai_result, errors, exit_code>>

\* analyze_site: except Exception as e: the report built in the handler; an
\* exception raised while building it leaves the call
DegradedReport(u, msg, errs) ==
    LET c == SiteContent(u, <<>>, <<"Error: ">> \o msg, <<>>, <<>>, None, None)
        a == AnalysisResult(u, Num(50), Num(1), SecurityFlagsDefault, ListV(<<>>),
                            ListV(<<>>),
                            StrV(<<"Unable to analyze due to error">>),
                            StrV(<<"Analysis failed: ">> \o msg),
                            NullV)
    IN  IF ~c.ok THEN Raised(c.msg)
        ELSE IF ~a.ok THEN Raised(a.msg)
        ELSE Returned(PhishingReport(c.value, a.value, errs))

Except ==
    /\ pc = "except"
    /\ LET msg == The(exc)
           errs == Append(errors, <<"Analysis error: ">> \o msg)
           r == DegradedReport(url, msg, errs)
       IN  /\ errors' = errs
           /\ IF r.raised
              THEN /\ exc' = Some(r.msg)
                   /\ outcome' = "raised"
                   /\ UNCHANGED report
              ELSE /\ report' = Some(r.value)
                   /\ outcome' = "returned"
                   /\ exc' = None
    /\ pc' = "finished"
    /\ UNCHANGED <<callv, resv, fetchv, datav, exit_code, steps>>

\* print_report(report, verbose): formatting response_time with :.2f raises
\* TypeError when it is None
print_report(rep, v) ==
    IF v /\ rep.site_content.response_time = None
    THEN Raised(<<"unsupported format string passed to NoneType.__format__">>)
    ELSE Returned("printed")

\* main.analyze_site after the analyzer's call: print_report, and sys.exit(1)
\* in the handler of any exception
PrintReport ==
    /\ pc = "finished"
    /\ mode = "cli"
    /\ exit_code' =
          IF outcome = "raised" THEN "1"
          ELSE IF print_report(The(report), verbose).raised THEN "1"
          ELSE "0"
    /\ pc' = "exit"
    /\ UNCHANGED <<callv, resv, fetchv, datav, exc, errors, report, outcome, steps>>

Next ==
    \/ Main
    \/ LibCall
    \/ AenterStart
    \/ AenterLaunch
    \/ NewPage
    \/ Goto
    \/ PageClose
    \/ BuildContent
    \/ ScrapeExcept
    \/ AexitClose
    \/ AexitStop
    \/ AnalyzeContent
    \/ RunnerRun
    \/ BuildResult
    \/ Except
    \/ PrintReport

Spec == Init /\ [][Next]_vars

----------------------------------------------------------------------------
(* The Assessment Response Parser on its own: _parse_ai_response applied   *)
(* to a response, then the AnalysisResult built from what it returned.     *)

MaxFragments == 3

ResponseFragments ==
    { <<"{">>, <<"}">>, <<",">>, <<" ">>, <<"b", "l", "a", "h">>, <<"P", "h", "i", "s", "h", "i", "n", "g">>, <<"s", "a", "f", "e">>,
      <<M_RISK_92>>, <<M_CONF_15>>, <<M_RECO_NULL>>, OBJ_PARTIAL, OBJ_FULL }

\* The concatenation of a sequence of strings
RECURSIVE Concat(_)
Concat(ss) == IF ss = <<>> THEN <<>> ELSE Head(ss) \o Concat(Tail(ss))

\* Every concatenation of at most n members of S
Texts(S, n) == {Concat(ss) : ss \in UNION {[1..k -> S] : k \in 0..n}}

ParserInputs == Responses \cup Texts(ResponseFragments, MaxFragments)

\* The page the assessment is about
PARSER_CONTENT ==
    SiteContent(URL_HTTPS, PAGE_PLAIN.html_content, PAGE_PLAIN.text_content,
                PAGE_PLAIN.links, PAGE_PLAIN.forms, Some("float"), Some("200")).value

ParserInit ==
    /\ pc = "parser_parse"
    /\ url = URL_HTTPS
    /\ site_content = Some(PARSER_CONTENT)
    /\ ai_response \in {Some(r) : r \in ParserInputs}
    /\ Blank

\* security_flags = self._analyze_security_flags(site_content), then
\* ai_result = self._parse_ai_response(ai_analysis.final_output)
ParseResponse ==
    /\ pc = "parser_parse"
    /\ LET res == _parse_ai_response(The(ai_response))
       IN  IF res.raised
           THEN /\ exc' = Some(res.msg)
                /\ outcome' = "raised"
                /\ pc' = "parser_done"
                /\ UNCHANGED <<ai_result, security_flags>>
           ELSE /\ ai_result' = Some(res.value)
                /\ security_flags' = Some(_analyze_security_flags(The(site_content)))
                /\ pc' = "parser_build"
                /\ UNCHANGED <<exc, outcome>>
    /\ UNCHANGED <<callv, resv, fetchv, site_content, runner, ai_response,
                   analysis_result, errors, report, exit_code, steps>>

\* return AnalysisResult(url=..., risk_score=ai_result.get("risk_score", 5.0), ...)
ParserBuild ==
    /\ pc = "parser_build"
    /\ LET r == BuildAnalysisResult(The(site_content), The(security_flags), The(ai_result))
       IN  IF r.ok
           THEN /\ analysis_result' = Some(r.value)
                /\ outcome' = "returned"
                /\ UNCHANGED exc
           ELSE /\ exc' = Some(r.msg)
                /\ outcome' = "rejected"
                /\ UNCHANGED analysis_result
    /\ pc' = "parser_done"
    /\ UNCHANGED <<callv, resv, fetchv, site_content, security_flags, runner,
                   ai_response, ai_result, errors, report, exit_code, steps>>

ParserNext ==
    \/ ParseResponse
    \/ ParserBuild

ParserSpec == ParserInit /\ [][ParserNext]_vars

----------------------------------------------------------------------------
(* The Security-Flag Classifier and the Rule-Based Scorer on their own:    *)
(* _analyze_security_flags and _fallback_analysis applied to a page.       *)

MaxWords == 2
MaxForms == 2

TextFragments ==
    { <<"U", "R", "G", "E", "N", "T">>, <<" ", "v", "e", "r", "i", "f", "y">>, <<"s", "u", "s", "p", "e", "n", "d", "e", "d">>, <<"e", "x", "p", "i", "r", "e", "s">>, <<"l", "i", "m", "i", "t", "e", "d", " ">>, <<"t", "i", "m", "e">> }

FormSamples == { FORM_LOGIN, FORM_SEARCH, FORM_CONTACT, FORM_CONSENT }

TEXT_ALL      == <<"U", "r", "g", "e", "n", "t", ":", " ", "v", "e", "r", "i", "f", "y", " ", "n", "o", "w", ",", " ", "y", "o", "u", "r", " ", "a", "c", "c", "o", "u", "n", "t", " ", "i", "s", " ", "s", "u", "s", "p", "e", "n", "d", "e", "d", " ", "a", "n", "d", " ", "e", "x", "p", "i", "r", "e", "s">>
TEXT_SCENARIO == <<"P", "l", "e", "a", "s", "e", " ", "v", "e", "r", "i", "f", "y", " ", "y", "o", "u", "r", " ", "a", "c", "c", "o", "u", "n", "t", ",", " ", "i", "t", " ", "w", "i", "l", "l", " ", "b", "e", " ", "s", "u", "s", "p", "e", "n", "d", "e", "d">>

\* Page texts: pieces put together, each keyword of the classifier on its own,
\* and two whole sentences
ScorerTexts ==
    Texts(TextFragments, MaxWords)
    \cup {suspicious_keywords[i] : i \in 1..Len(suspicious_keywords)}
    \cup {TEXT_ALL, TEXT_SCENARIO}

ScorerContents ==
    { SiteContent(u, <<>>, text, <<>>, forms, Some("float"), Some("200")).value :
        u \in {URL_HTTPS, URL_HTTP},
        text \in ScorerTexts,
        forms \in UNION {[1..k -> FormSamples] : k \in 0..MaxForms} }

ScorerInit ==
    /\ pc = "scorer_classify"
    /\ site_content \in {Some(c) : c \in ScorerContents}
    /\ url = The(site_content).url
    /\ ai_response = None
    /\ Blank

\* security_flags = self._analyze_security_flags(site_content)
Classify ==
    /\ pc = "scorer_classify"
    /\ security_flags' = Some(_analyze_security_flags(The(site_content)))
    /\ pc' = "scorer_score"
    /\ UNCHANGED <<callv, resv, fetchv, site_content, runner, ai_response, ai_result,
                   analysis_result, outv, steps>>

\* ai_result = self._fallback_analysis(site_content)
Score ==
    /\ pc = "scorer_score"
    /\ ai_result' = Some(_fallback_analysis(The(site_content)))
    /\ pc' = "scorer_done"
    /\ UNCHANGED <<callv, resv, fetchv, site_content, security_flags, runner,
                   ai_response, analysis_result, outv, steps>>

ScorerNext ==
    \/ Classify
    \/ Score

ScorerSpec == ScorerInit /\ [][ScorerNext]_vars

----------------------------------------------------------------------------
(* Properties of the analysis call (Spec) *)

Ended == pc \in {"finished", "exit"}

\* C1: analyze_site is total: whatever the URL string and whatever fails on
\* the way, the call ends by returning a Report, never by raising.
C1_AnalyzeSiteIsTotal ==
    Ended => outcome = "returned"

LaterFailures == {MSG_BROWSER_CLOSE, MSG_STOP, ValidationError("AnalysisResult")}

C3_SessionReleased ==
    (Ended /\ ValidHttpUrl(url)) =>
        playwright # "running" /\ browser # "open" /\ page # "open"

\* C4: every Report returned has risk_score in [0,10] and confidence in [0,1]
\* (tenths: 0..100 and 0..10).
C4_ScoresInRange ==
    IsSome(report) =>
        /\ The(report).analysis_result.risk_score \in 0..100
        /\ The(report).analysis_result.confidence \in 0..10

\* C4 witness: the assessment answered with a risk_score of 12, and a Report
\* was returned all the same
C4_Witness ==
    /\ Ended
    /\ ai_response = Some(RESP_RISK_HIGH)
    /\ IsSome(report)

\* C6: a Report returned by the analysis is rendered and the process does not
\* exit with a non-zero code, in verbose and in non-verbose mode.
C6_ReturnedReportExitsZero ==
    (pc = "exit" /\ outcome = "returned") => exit_code = "0"

\* C7: when Runner.run fails, the call recovers locally: it returns a Report
\* with an empty errors list whose AnalysisResult is the Rule-Based Scorer's
\* output for the fetched content, with the classifier's flags for it.
C7_AssessmentFailureFallsBack ==
    /\ runner = "failed" => pc # "except"
    /\ (Ended /\ runner = "failed") =>
          /\ outcome = "returned"
          /\ LET r == The(report)
                 a == r.analysis_result
                 f == _fallback_analysis(r.site_content)
             IN  /\ r.errors = <<>>
                 /\ r.site_content = The(site_content)
                 /\ a.risk_score = f.risk_score.n
                 /\ a.confidence = 7
                 /\ a.suspicious_elements = f.suspicious_elements.l
                 /\ a.legitimate_indicators = f.legitimate_indicators.l
                 /\ a.recommendation = f.recommendation.s
                 /\ a.explanation = f.explanation.s
                 /\ a.brand_impersonation = None
                 /\ a.security_flags = _analyze_security_flags(r.site_content)

\* C7 witness: Runner.run failed on the login page fetched over http, and the
\* Report carries the scorer's 7.5 / "High risk"
C7_Witness ==
    /\ Ended
    /\ runner = "failed"
    /\ url = URL_HTTP
    /\ The(site_content).text_content = PAGE_LOGIN.text_content
    /\ The(report).analysis_result.risk_score = 75
    /\ The(report).analysis_result.recommendation = <<"High risk">>

----------------------------------------------------------------------------
(* Properties of the classifier and the scorer (ScorerSpec) *)

EmptyContent ==
    /\ pc = "scorer_done"
    /\ The(site_content).text_content = <<>>
    /\ The(site_content).forms = <<>>

\* C5 as stated: for a page with empty text and no forms, whatever the URL,
\* the classifier returns the six booleans false and the scorer returns
\* risk_score 0.0 with recommendation "Low risk".
C5_EmptyContentAllFalse ==
    EmptyContent =>
        LET f == The(security_flags)
            a == The(ai_result)
        IN  /\ ~f.has_https
            /\ ~f.has_valid_certificate
            /\ ~f.has_suspicious_keywords
            /\ ~f.has_login_forms
            /\ ~f.has_payment_forms
            /\ ~f.is_blacklisted
            /\ a.risk_score = Num(0)
            /\ a.recommendation = StrV(<<"Low risk">>)

\* C5 as amended: for a page with empty text and no forms, the classifier
\* returns has_suspicious_keywords, has_login_forms, has_payment_forms and
\* is_blacklisted false, and has_https and has_valid_certificate true exactly
\* when the URL starts with "https://"; the scorer returns risk_score 0.0 and
\* "Low risk" for such an https URL, and 3.0 and "Medium risk" (the two risk
\* factors of a missing https) for any other URL.
C5_EmptyContentByScheme ==
    EmptyContent =>
        LET f == The(security_flags)
            a == The(ai_result)
            https == SubSeq(url, 1, 8) = HTTPS_PREFIX
        IN  /\ f.has_https = https
            /\ f.has_valid_certificate = https
            /\ ~f.has_suspicious_keywords
            /\ ~f.has_login_forms
            /\ ~f.has_payment_forms
            /\ ~f.is_blacklisted
            /\ a.risk_score = Num(IF https THEN 0 ELSE 30)
            /\ a.recommendation =
                   StrV(IF https THEN <<"Low risk">> ELSE <<"Medium risk">>)
            /\ a.explanation =
                   StrV(<<"Rule-based analysis found ", IF https THEN "0" ELSE "2",
                          " risk factors">>)

\* C5 witness: an empty page fetched over http has been classified and scored
C5_Witness ==
    /\ EmptyContent
    /\ url = URL_HTTP
    /\ The(ai_result).risk_score = Num(30)

----------------------------------------------------------------------------
(* Properties of the response parser (ParserSpec) *)

Parsed == pc \in {"parser_build", "parser_done"}

\* The text from the first "{" to the last "}" of r, if there is one
HasBraces(r) == find(r, "{") # -1 /\ rfind(r, "}") > find(r, "{")
Braced(r) == SubSeq(r, find(r, "{") + 1, rfind(r, "}") + 1)

\* The text from the first "{" to the last "}" decodes as an object
Decodes(r) == HasBraces(r) /\ json_loads(Braced(r)).ok
Object(r) == json_loads(Braced(r)).obj

\* C8: the parser never throws and always returns an assessment, for every
\* string: empty, whitespace, without braces, with unbalanced braces, with a
\* "}" before the first "{", with undecodable text between braces, and with
\* valid structured content.
C8_ParserNeverThrows ==
    Parsed =>
        /\ outcome # "raised"
        /\ IsSome(ai_result)
        /\ ~Decodes(The(ai_response)) =>
              DOMAIN The(ai_result) =
                  {"risk_score", "confidence", "suspicious_elements",
                   "legitimate_indicators", "recommendation", "explanation",
                   "brand_impersonation"}

\* C8 witness: the text between the braces was handed to json.loads and is
\* not decodable
C8_Witness ==
    /\ Parsed
    /\ HasBraces(The(ai_response))
    /\ ~Decodes(The(ai_response))
    /\ IsSome(ai_result)

\* The value is the number n, or the string "9.2" that spells n
Spells(v, n) == v = Num(n) \/ (v = StrV(<<"9.2">>) /\ n = 92)

\* The AnalysisResult a takes field k from the decoded object, or the
\* documented default when the object has no field k
TakesFields(a, obj) ==
    /\ Spells(Get(obj, "risk_score", Num(50)), a.risk_score)
    /\ Spells(Get(obj, "confidence", Num(5)), a.confidence)
    /\ ListV(a.suspicious_elements) = Get(obj, "suspicious_elements", ListV(<<>>))
    /\ ListV(a.legitimate_indicators) = Get(obj, "legitimate_indicators", ListV(<<>>))
    /\ StrV(a.recommendation) = Get(obj, "recommendation", StrV(<<"Requires manual review">>))
    /\ StrV(a.explanation) = Get(obj, "explanation", StrV(<<"Automated analysis completed">>))
    /\ (IF a.brand_impersonation = None THEN NullV ELSE StrV(The(a.brand_impersonation)))
           = Get(obj, "brand_impersonation", NullV)

\* C9 as stated: whenever the text from the first "{" to the last "}" decodes
\* as an object, the resulting assessment takes every field present in the
\* object from it and every missing field from the documented defaults.
C9_DecodedFieldsTaken ==
    (pc = "parser_done" /\ Decodes(The(ai_response))) =>
        /\ IsSome(analysis_result)
        /\ TakesFields(The(analysis_result), Object(The(ai_response)))

\* Every field of the object that AnalysisResult declares holds a value the
\* model accepts
Accepted(obj) ==
    /\ "risk_score" \in DOMAIN obj => \E n \in 0..100 : Spells(obj.risk_score, n)
    /\ "confidence" \in DOMAIN obj => \E n \in 0..10 : Spells(obj.confidence, n)
    /\ "suspicious_elements" \in DOMAIN obj => obj.suspicious_elements.t = "list"
    /\ "legitimate_indicators" \in DOMAIN obj => obj.legitimate_indicators.t = "list"
    /\ "recommendation" \in DOMAIN obj => obj.recommendation.t = "str"
    /\ "explanation" \in DOMAIN obj => obj.explanation.t = "str"
    /\ "brand_impersonation" \in DOMAIN obj =>
           obj.brand_impersonation.t \in {"str", "null"}

\* C9 as amended: whenever the text from the first "{" to the last "}"
\* decodes as an object whose declared fields all hold values AnalysisResult
\* accepts (risk_score a number in [0,10], confidence a number in [0,1],
\* either of them possibly spelled as a string, the lists lists,
\* recommendation and explanation strings, brand_impersonation a string or
\* null), the resulting assessment takes every field present in the object
\* from it and every missing field from the documented defaults, the
\* text around the braces being ignored; when a present field holds a value
\* AnalysisResult rejects, no assessment results: its construction raises.
C9_AcceptedFieldsTaken ==
    (pc = "parser_done" /\ Decodes(The(ai_response))) =>
        IF Accepted(Object(The(ai_response)))
        THEN /\ outcome = "returned"
             /\ IsSome(analysis_result)
             /\ TakesFields(The(analysis_result), Object(The(ai_response)))
        ELSE /\ outcome = "rejected"
             /\ analysis_result = None

\* C9 witness: 'blah {"risk_score": 9.2, "confidence": 0.8} blah' gave 9.2 and
\* 0.8 with the other fields at their defaults
C9_Witness ==
    /\ pc = "parser_done"
    /\ ai_response = Some(RESP_PARTIAL)
    /\ IsSome(analysis_result)
    /\ The(analysis_result).risk_score = 92
    /\ The(analysis_result).confidence = 8
    /\ The(analysis_result).suspicious_elements = <<>>
    /\ The(analysis_result).legitimate_indicators = <<>>
    /\ The(analysis_result).recommendation = <<"Requires manual review">>
    /\ The(analysis_result).explanation = <<"Automated analysis completed">>
    /\ The(analysis_result).brand_impersonation = None

\* Some word of the set occurs in the lower-cased response
Mentions(r, words) == \E w \in words : Has(lower(r), w)

HighRiskWords == { <<"h", "i", "g", "h", " ", "r", "i", "s", "k">>, <<"p", "h", "i", "s", "h", "i", "n", "g">>, <<"s", "u", "s", "p", "i", "c", "i", "o", "u", "s">>, <<"f", "a", "k", "e">>, <<"s", "c", "a", "m">> }
LowRiskWords  == { <<"l", "e", "g", "i", "t", "i", "m", "a", "t", "e">>, <<"s", "a", "f", "e">>, <<"l", "o", "w", " ", "r", "i", "s", "k">>, <<"t", "r", "u", "s", "t", "e", "d">> }

\* C10: when structured decoding fails, the parser returns the keyword-scan
\* assessment: risk_score 8.0 if the lower-cased response contains a high-risk
\* word, otherwise 2.0 if it contains a low-risk word, otherwise 5.0, always
\* with confidence 0.6, suspicious_elements ["AI analysis inconclusive"], no
\* legitimate_indicators, the fixed recommendation and explanation and a null
\* brand_impersonation; an empty or whitespace-only response yields 5.0.
C10_KeywordScan ==
    (Parsed /\ ~Decodes(The(ai_response))) =>
        LET r == The(ai_response)
            a == The(ai_result)
        IN  /\ a.risk_score =
                   Num(IF Mentions(r, HighRiskWords) THEN 80
                       ELSE IF Mentions(r, LowRiskWords) THEN 20
                       ELSE 50)
            /\ (\A i \in 1..Len(r) : r[i] = " ") => a.risk_score = Num(50)
            /\ r = RESP_PHISHING => a.risk_score = Num(80)
            /\ r = RESP_SAFE => a.risk_score = Num(20)
            /\ a.confidence = Num(6)
            /\ a.suspicious_elements = ListV(<< <<"AI analysis inconclusive">> >>)
            /\ a.legitimate_indicators = ListV(<<>>)
            /\ a.recommendation = StrV(<<"Manual review recommended">>)
            /\ a.explanation = StrV(<<"AI response could not be parsed properly">>)
            /\ a.brand_impersonation = NullV

\* C10 witness: a response naming words of both sets, in upper and lower
\* case, scored 8.0
C10_Witness ==
    /\ Parsed
    /\ ~Decodes(The(ai_response))
    /\ Contains(The(ai_response), <<"P", "h", "i", "s", "h", "i", "n", "g">>)
    /\ Contains(The(ai_response), <<"s", "a", "f", "e">>)
    /\ The(ai_result).risk_score = Num(80)

-----------------------------------------------------------------------------
(* Properties of the scorer and the classifier, continued (ScorerSpec) *)

Scored == pc = "scorer_done"

HttpsScheme == SubSeq(url, 1, 8) = HTTPS_PREFIX

ScorerWords == { <<"u", "r", "g", "e", "n", "t">>, <<"v", "e", "r", "i", "f", "y">>, <<"s", "u", "s", "p", "e", "n", "d", "e", "d">>, <<"e", "x", "p", "i", "r", "e", "s">> }

AnyPasswordField ==
    \E form \in Range(The(site_content).forms) :
        \E field \in Range(form.fields) : field.type = "password"

\* 2 for a scheme other than https, 1 for each of the four words that occurs
\* in the text in any letter case, 1 for a password field in some form
Accumulator ==
    (IF HttpsScheme THEN 0 ELSE 2)
    + Cardinality({w \in ScorerWords : Mentions(The(site_content).text_content, {w})})
    + (IF AnyPasswordField THEN 1 ELSE 0)

\* C11: the scorer returns risk_score = min(1.5 * accumulator, 10.0) and
\* confidence 0.7, the accumulator being 2 for a scheme other than https, plus
\* 1 for each distinct word of {urgent, verify, suspended, expires} in the text
\* (any letter case, once per word), plus 1 if some form has a password field;
\* so risk_score is in [0, 10] and the largest accumulator, 7, gives 10.0.
C11_ScorerFormula ==
    Scored =>
        LET a == The(ai_result)
        IN  /\ a.risk_score =
                   Num(IF 15 * Accumulator <= 100 THEN 15 * Accumulator ELSE 100)
            /\ a.confidence = Num(7)
            /\ a.risk_score.n \in 0..100
            /\ Accumulator <= 7
            /\ Accumulator = 7 => a.risk_score = Num(100)

\* C11 witness: an http page with all four words and a password form has been
\* scored: accumulator 7, risk_score clamped to 10.0
C11_Witness ==
    /\ Scored
    /\ Accumulator = 7
    /\ The(ai_result).risk_score = Num(100)

ScenarioPage ==
    /\ Scored
    /\ HttpsScheme
    /\ The(site_content).forms = <<>>
    /\ The(site_content).text_content = TEXT_SCENARIO

\* C12: the scorer's recommendation is "Low risk" exactly when risk_score < 3,
\* "Medium risk" exactly when 3 <= risk_score < 7, "High risk" otherwise, and
\* its explanation reports the accumulator; an https page without forms whose
\* text is "Please verify your account, it will be suspended" gets the
\* suspicious elements "Suspicious keyword: verify" and "Suspicious keyword:
\* suspended", the legitimate indicator "HTTPS encryption present",
\* accumulator 2, risk_score 3.0 and "Medium risk".
C12_RecommendationBands ==
    Scored =>
        LET a == The(ai_result)
            risk == a.risk_score.n
            reco == a.recommendation
        IN  /\ reco = StrV(<<"Low risk">>) <=> risk < 30
            /\ reco = StrV(<<"Medium risk">>) <=> (30 <= risk /\ risk < 70)
            /\ reco = StrV(<<"High risk">>) <=> risk >= 70
            /\ a.explanation =
                   StrV(<<"Rule-based analysis found ", ToString(Accumulator),
                          " risk factors">>)
            /\ ScenarioPage =>
                   /\ (<<"Suspicious keyword: ">> \o <<"v", "e", "r", "i", "f", "y">>)
                          \in Range(a.suspicious_elements.l)
                   /\ (<<"Suspicious keyword: ">> \o <<"s", "u", "s", "p", "e", "n", "d", "e", "d">>)
                          \in Range(a.suspicious_elements.l)
                   /\ <<"HTTPS encryption present">> \in Range(a.legitimate_indicators.l)
                   /\ Accumulator = 2
                   /\ risk = 30
                   /\ reco = StrV(<<"Medium risk">>)

\* C12 witness: the page of the scenario has been scored at 3.0, "Medium risk"
C12_Witness ==
    /\ ScenarioPage
    /\ The(ai_result).risk_score = Num(30)
    /\ The(ai_result).recommendation = StrV(<<"Medium risk">>)

ClassifierKeywords ==
    { <<"u", "r", "g", "e", "n", "t">>, <<"v", "e", "r", "i", "f", "y">>, <<"s", "u", "s", "p", "e", "n", "d", "e", "d">>, <<"l", "i", "m", "i", "t", "e", "d", " ", "t", "i", "m", "e">>, <<"a", "c", "t", " ", "n", "o", "w">>,
      <<"c", "o", "n", "f", "i", "r", "m">>, <<"u", "p", "d", "a", "t", "e">>, <<"s", "e", "c", "u", "r", "i", "t", "y", " ", "a", "l", "e", "r", "t">>, <<"l", "o", "c", "k", "e", "d">>, <<"e", "x", "p", "i", "r", "e", "s">> }

PaymentTypes == {"email", "text", "password", "tel"}

\* Some single form has more than two fields of a payment type
SomeFormLooksLikePayment ==
    \E form \in Range(The(site_content).forms) :
        Cardinality({j \in DOMAIN form.fields : form.fields[j].type \in PaymentTypes}) > 2

Classified == pc \in {"scorer_score", "scorer_done"}

\* C13: the classifier agrees with its reference definition: has_https exactly
\* when the scheme is https, has_valid_certificate equal to has_https,
\* has_suspicious_keywords exactly when one of the ten keywords occurs in the
\* text in any letter case, has_login_forms exactly when some form has a
\* password field, has_payment_forms exactly when some single form has more
\* than two fields of type email, text, password or tel, is_blacklisted false
\* and domain_age_days absent.
C13_ClassifierReference ==
    Classified =>
        LET f == The(security_flags)
        IN  /\ f.has_https = HttpsScheme
            /\ f.has_valid_certificate = f.has_https
            /\ f.has_suspicious_keywords =
                   Mentions(The(site_content).text_content, ClassifierKeywords)
            /\ f.has_login_forms = AnyPasswordField
            /\ f.has_payment_forms = SomeFormLooksLikePayment
            /\ f.is_blacklisted = FALSE
            /\ f.domain_age_days = None

\* C13 witness: a page with the form [password, text, text, email] has been
\* classified as having both a login form and a payment form
C13_Witness ==
    /\ Classified
    /\ The(site_content).forms = <<FORM_LOGIN>>
    /\ The(security_flags).has_login_forms
    /\ The(security_flags).has_payment_forms

\* Two forms with two payment-type fields each: four in all, no form above two
C13_WitnessNotSummed ==
    /\ Classified
    /\ The(site_content).forms = <<FORM_CONTACT, FORM_CONTACT>>
    /\ ~The(security_flags).has_payment_forms

-----------------------------------------------------------------------------
(* Properties of the command line and of one analyze_site call (Spec) *)

\* The text names a scheme: it holds "://"
HasScheme(u) == Contains(u, <<":", "/", "/">>)

\* C14: the CLI prefixes "https://" to the URL exactly when the input has no
\* scheme and leaves an input that has a scheme unchanged; normalizing the
\* result again changes nothing.
C14_SchemeNormalization ==
    mode = "cli" =>
        LET typed == The(args_url)
        IN  /\ url = (IF HasScheme(typed) THEN typed ELSE HTTPS_PREFIX \o typed)
            /\ NormalizeUrl(url) = url

\* The steps of a call that goes through, in order; the fifth is "parse" after
\* an assessment that answered and "score" after one that failed
CallOrder(fifth) == <<"fetch", "close", "classify", "assess", fifth, "assemble">>

IsPrefix(s, t) == Len(s) <= Len(t) /\ s = SubSeq(t, 1, Len(s))

\* C15: within one analyze_site call the steps are taken in the order fetch,
\* flag classification, external assessment, parse (rule-based scoring when
\* the assessment fails), report assembly; the fetch and the assessment are
\* each attempted at most once, and the browser session has been closed
\* before the assessment is invoked.
C15_StepsInOrder ==
    /\ IsPrefix(steps, CallOrder("parse")) \/ IsPrefix(steps, CallOrder("score"))
    /\ "parse" \in Range(steps) => runner = "ok"
    /\ "score" \in Range(steps) => runner = "failed"
    /\ "assess" \in Range(steps) => browser = "closed" /\ playwright = "stopped"
    /\ runner # "none" => "assess" \in Range(steps)
    /\ IsSome(security_flags) => "classify" \in Range(steps)
    /\ fetch # "none" => "fetch" \in Range(steps)

\* C15 witness: a call has gone through all its steps, the assessment having
\* failed once and the scorer having taken its place
C15_Witness ==
    /\ pc = "finished"
    /\ outcome = "returned"
    /\ steps = CallOrder("score")
    /\ browser = "closed"

AllFlagsFalse ==
    [has_https |-> FALSE, has_valid_certificate |-> FALSE,
     has_suspicious_keywords |-> FALSE, has_login_forms |-> FALSE,
     has_payment_forms |-> FALSE, domain_age_days |-> None, is_blacklisted |-> FALSE]

\* The degraded error Report: 5.0, 0.1, every flag false, the fixed recommendation
Degraded(r) ==
    /\ r.analysis_result.risk_score = 50
    /\ r.analysis_result.confidence = 1
    /\ r.analysis_result.security_flags = AllFlagsFalse
    /\ r.analysis_result.recommendation = <<"Unable to analyze due to error">>

ReportReturned == Ended /\ outcome = "returned"

\* C16: the errors list of a returned Report is non-empty exactly when the
\* Report is the degraded error Report, and then holds exactly one entry,
\* "Analysis error: <message>", for the failure the Report describes; every
\* Report assembled on the normal path has an empty errors list, and the list
\* is fresh in every call on the same analyzer.
C16_ErrorsIffDegraded ==
    ReportReturned =>
        LET r == The(report)
        IN  /\ r.errors # <<>> <=> Degraded(r)
            /\ Degraded(r) =>
                   /\ Len(r.errors) = 1
                   /\ Head(r.errors[1]) = "Analysis error: "
                   /\ r.analysis_result.explanation =
                          <<"Analysis failed: ">> \o Tail(r.errors[1])
                   /\ r.site_content.text_content = <<"Error: ">> \o Tail(r.errors[1])
                   /\ "assemble" \notin Range(steps)
            /\ "assemble" \in Range(steps) => r.errors = <<>>

\* C16 witness: the second call on an analyzer has returned the degraded
\* Report, with one entry in its errors list
C16_Witness ==
    /\ ReportReturned
    /\ calls = 2
    /\ Degraded(The(report))
    /\ Len(The(report).errors) = 1

\* A second call on the analyzer has returned a Report assembled on the normal
\* path from the scraper's placeholder and the scorer, with no errors
C16_WitnessNormal ==
    /\ ReportReturned
    /\ calls = 2
    /\ fetch = "failed"
    /\ runner = "failed"
    /\ "assemble" \in Range(steps)
    /\ The(report).errors = <<>>

\* The assessment answered with text that decodes as an object
Assessed == Ended /\ runner = "ok" /\ Decodes(The(ai_response))

Answer == Object(The(ai_response))

OutOfRange(obj) ==
    \/ "risk_score" \in DOMAIN obj /\ obj.risk_score.t = "num"
           /\ obj.risk_score.n \notin 0..100
    \/ "confidence" \in DOMAIN obj /\ obj.confidence.t = "num"
           /\ obj.confidence.n \notin 0..10

\* A scalar field is present and null, or of another type than declared
NullOrWrongType(obj) ==
    \/ "risk_score" \in DOMAIN obj /\ obj.risk_score.t # "num"
    \/ "confidence" \in DOMAIN obj /\ obj.confidence.t # "num"
    \/ "recommendation" \in DOMAIN obj /\ obj.recommendation.t # "str"
    \/ "explanation" \in DOMAIN obj /\ obj.explanation.t # "str"

\* A scalar field is present and null, or of a type that is neither the
\* declared one nor converted to it: a string that spells a number is
\* converted for risk_score and confidence
NullOrUnconvertible(obj) ==
    \/ "risk_score" \in DOMAIN obj /\ obj.risk_score.t # "num"
           /\ obj.risk_score # StrV(<<"9.2">>)
    \/ "confidence" \in DOMAIN obj /\ obj.confidence.t # "num"
           /\ obj.confidence # StrV(<<"9.2">>)
    \/ "recommendation" \in DOMAIN obj /\ obj.recommendation.t # "str"
    \/ "explanation" \in DOMAIN obj /\ obj.explanation.t # "str"

\* The call returned the degraded error Report in place of what was fetched
\* and classified
RejectedIntoDegraded ==
    /\ outcome = "returned"
    /\ Degraded(The(report))
    /\ The(report).errors # <<>>
    /\ The(report).site_content.html_content = <<>>
    /\ The(report).site_content.forms = <<>>
    /\ Head(The(report).site_content.text_content) = "Error: "
    /\ analysis_result = None

\* C17 as stated: when the assessment decodes to an object whose risk_score
\* is outside [0,10], whose confidence is outside [0,1], or whose risk_score,
\* confidence, recommendation or explanation is present but null or of the
\* wrong type, analyze_site neither clamps nor defaults nor falls back: the
\* call returns the degraded error Report (5.0, 0.1, all flags false, non-empty
\* errors), without the fetched content and the flags computed.
C17_BadFieldsRejected ==
    (Assessed /\ (OutOfRange(Answer) \/ NullOrWrongType(Answer))) =>
        RejectedIntoDegraded

\* C17 as amended: the same, for a risk_score outside [0,10], a confidence
\* outside [0,1], and a risk_score, confidence, recommendation or explanation
\* that is null or of a type not converted to the declared one; a risk_score
\* or confidence given as a string that spells a number in range is converted
\* and the Report is assembled on the normal path.
C17_UnconvertibleFieldsRejected ==
    /\ (Assessed /\ (OutOfRange(Answer) \/ NullOrUnconvertible(Answer))) =>
           RejectedIntoDegraded
    /\ (Assessed /\ ai_response = Some(RESP_RISK_TEXT)) =>
           /\ outcome = "returned"
           /\ The(report).errors = <<>>
           /\ The(report).analysis_result.risk_score = 92
           /\ The(report).site_content = The(site_content)

\* C17 witness: the page with the login form was fetched over https and
\* classified, the assessment answered {"risk_score": 12}, and the call
\* returned the degraded Report
C17_Witness ==
    /\ Assessed
    /\ ai_response = Some(RESP_RISK_HIGH)
    /\ The(site_content).forms = <<FORM_LOGIN>>
    /\ The(security_flags).has_https
    /\ The(security_flags).has_login_forms
    /\ RejectedIntoDegraded
    /\ The(report).analysis_result.security_flags = AllFlagsFalse

\* A null recommendation and a confidence of 1.5 end the same way
C17_WitnessNull ==
    /\ Assessed
    /\ ai_response \in {Some(RESP_RECO_NULL), Some(RESP_CONF_NULL)}
    /\ RejectedIntoDegraded

====
